---- MODULE Spec2Model ----
(***************************************************************************)
(* Model of packages/api-contract/src/base/Code.ts: the Code builder       *)
(* (constructor, createBlueprint, #instantiate, #instantiateSingle,        *)
(* #instantiateDual) and the result transforms attached to the calls it    *)
(* builds.  Bytes are sequences of 0..255; an optional value is the empty  *)
(* sequence (undefined) or a one-element sequence.                         *)
(***************************************************************************)
EXTENDS Integers, Sequences, FiniteSets, TLC

VARIABLES
  hasInstantiateWithCode, \* api.tx.contracts.instantiateWithCode is exposed
  instantiateArity,       \* api.tx.contracts.instantiate.meta.args.length
  built,                  \* "unbuilt" | "ok" | "failed" (assert threw)
  abi,                    \* this.abi: [constructors, wasm]
  code,                   \* this.code
  tx,                     \* this.#tx: camel-cased name -> index of the bound constructor
  ops,                    \* number of builder operations invoked so far
  ncalls,                 \* number of calls assembled on api.tx.contracts
  lastCall,               \* the last call assembled: [name, args]
  outcome,                \* what the last builder operation did
  firstPath,              \* path taken by the first instantiate of this builder
  ctorArgs,               \* the arguments the constructor was invoked with
  result                  \* the last CodeSubmittableResult a transform produced

vars == <<hasInstantiateWithCode, instantiateArity, built, abi, code, tx,
          ops, ncalls, lastCall, outcome, firstPath, ctorArgs, result>>

runtimeVars == <<hasInstantiateWithCode, instantiateArity>>
builderVars == <<built, abi, code, tx, ctorArgs>>
callVars    == <<ops, ncalls, lastCall, outcome, firstPath>>

----------------------------------------------------------------------------
(* Bounds *)
MaxOps    == 2   \* builder operations per behaviour
MaxEvents == 4   \* events in one submission outcome

----------------------------------------------------------------------------
(* Byte-level helpers of @polkadot/util *)

WASM_MAGIC == <<0, 97, 115, 109>>

isWasm(value) ==
  /\ Len(value) >= 4
  /\ SubSeq(value, 1, 4) = WASM_MAGIC

\* character code of the characters strings are drawn from
CharCode(c) == CASE c = "s" -> 115 [] c = "t" -> 116 [] OTHER -> 63

\* u8aToU8a: null/undefined -> empty array, string -> its bytes, bytes -> bytes
u8aToU8a(value) ==
  IF value = <<>> THEN <<>>
  ELSE IF value[1].kind = "str"
       THEN [i \in 1..Len(value[1].content) |-> CharCode(value[1].content[i])]
       ELSE value[1].content

\* compactAddLength: SCALE compact length prefix (single-byte mode, len < 64)
compactAddLength(input) == <<(Len(input) * 4) % 256>> \o input

Lower(c) == CASE c = "A" -> "a" [] c = "B" -> "b" [] OTHER -> c
Upper(c) == CASE c = "a" -> "A" [] c = "b" -> "B" [] OTHER -> c

RECURSIVE CamelFrom(_, _, _)
CamelFrom(value, acc, up) ==
  IF value = <<>> THEN acc
  ELSE IF Head(value) = "_" THEN CamelFrom(Tail(value), acc, TRUE)
  ELSE IF acc = <<>> THEN CamelFrom(Tail(value), <<Lower(Head(value))>>, FALSE)
  ELSE IF up THEN CamelFrom(Tail(value), Append(acc, Upper(Head(value))), FALSE)
  ELSE CamelFrom(Tail(value), Append(acc, Head(value)), FALSE)

stringCamelCase(value) == CamelFrom(value, <<>>, FALSE)

----------------------------------------------------------------------------
(* Salt codec and constructor encoder (./util, ../Abi) *)

EMPTY_SALT == <<>>

encodeSalt(salt) == IF salt = <<>> THEN EMPTY_SALT ELSE u8aToU8a(salt)

\* little-endian encoding of v in w bytes
RECURSIVE LE(_, _)
LE(v, w) == IF w = 0 THEN <<>> ELSE <<v % 256>> \o LE(v \div 256, w - 1)

RECURSIVE Pow256(_)
Pow256(w) == IF w = 0 THEN 1 ELSE 256 * Pow256(w - 1)

NotFound == [identifier |-> <<>>, args |-> <<>>, found |-> FALSE]

\* Abi.findConstructor: by index, by string identifier, or by descriptor
findConstructor(a, constructorOrId) ==
  LET list == a.constructors IN
  CASE constructorOrId.kind = "index" ->
         IF constructorOrId.index + 1 \in 1..Len(list)
         THEN [identifier |-> list[constructorOrId.index + 1].identifier,
               args |-> list[constructorOrId.index + 1].args, found |-> TRUE]
         ELSE NotFound
    [] constructorOrId.kind = "id" ->
         LET hits == {i \in 1..Len(list) :
                        constructorOrId.id \in {list[i].identifier,
                                                stringCamelCase(list[i].identifier)}}
         IN IF hits = {} THEN NotFound
            ELSE LET i == CHOOSE j \in hits : \A k \in hits : j <= k
                 IN [identifier |-> list[i].identifier, args |-> list[i].args,
                     found |-> TRUE]
    [] OTHER ->
         [identifier |-> constructorOrId.descriptor.identifier,
          args |-> constructorOrId.descriptor.args, found |-> TRUE]

\* the parameters match the constructor's declared schema (count and width)
Encodable(c, params) ==
  /\ Len(params) = Len(c.args)
  /\ \A i \in 1..Len(params) : params[i] < Pow256(c.args[i])

RECURSIVE EncodeArgs(_, _)
EncodeArgs(widths, params) ==
  IF widths = <<>> THEN <<>>
  ELSE LE(Head(params), Head(widths)) \o EncodeArgs(Tail(widths), Tail(params))

\* AbiConstructor.toU8a(params, salt?): the arguments in declared order,
\* followed by the trailing salt when one is supplied
toU8a(c, params, trailingSalt) ==
  EncodeArgs(c.args, params) \o (IF trailingSalt = <<>> THEN <<>> ELSE trailingSalt[1])

----------------------------------------------------------------------------
(* Result projection *)

\* the event records a submission outcome can carry: [kind, data]
Events ==
  [kind : {"CodeStored"}, data : {<<11>>, <<12>>}]
    \cup [kind : {"Instantiated"}, data : {<<21, 31>>, <<21, 32>>}]
    \cup [kind : {"Transfer"}, data : {<<41, 42>>}]

Blueprint(codeHash) == [codeHash |-> codeHash]
Contract(address)   == [address |-> address]

\* applyOnEvent: keep the records whose kind is one of types; fn on a
\* non-empty selection, undefined otherwise
applyOnEvent(res, types, fn, undefined) ==
  LET records == SelectSeq(res.events, LAMBDA r : r.kind \in types)
  IN IF Len(records) > 0 THEN fn[records] ELSE undefined

CodeSubmittableResult(res, blueprint, contract) ==
  [events |-> res.events, blueprint |-> blueprint, contract |-> contract]

BlueprintSubmittableResult(res, contract) ==
  [events |-> res.events, contract |-> contract]

\* createBlueprint's withResultTransform callback
storeTransform(res) ==
  CodeSubmittableResult(res,
    applyOnEvent(res, {"CodeStored"},
                 [records \in Seq(Events) |-> <<Blueprint(records[1].data[1])>>], <<>>),
    <<>>)

\* reduceStep with each slot set only while it is unset
reduceStep_KeepFirst(acc, event) ==
  IF event.kind = "Instantiated"
  THEN <<acc[1], IF acc[2] = <<>> THEN <<Contract(event.data[2])>> ELSE acc[2]>>
  ELSE IF event.kind = "CodeStored"
       THEN <<IF acc[1] = <<>> THEN <<Blueprint(event.data[1])>> ELSE acc[1], acc[2]>>
       ELSE acc

\* reduceStep reading the first data field of an Instantiated event
reduceStep_FirstField(acc, event) ==
  IF event.kind = "Instantiated"
  THEN <<acc[1], <<Contract(event.data[1])>>>>
  ELSE IF event.kind = "CodeStored"
       THEN <<<<Blueprint(event.data[1])>>, acc[2]>>
       ELSE acc

\* one step of the reduce in #instantiateSingle
reduceStep(acc, event) ==
  IF event.kind = "Instantiated"
  THEN <<acc[1], <<Contract(event.data[2])>>>>
  ELSE IF event.kind = "CodeStored"
       THEN <<<<Blueprint(event.data[1])>>, acc[2]>>
       ELSE acc

RECURSIVE reduce(_, _)
reduce(records, acc) ==
  IF records = <<>> THEN acc
  ELSE reduce(Tail(records), reduceStep(acc, Head(records)))

\* #instantiateSingle's withResultTransform callback
singleTransform(res) ==
  LET pair == applyOnEvent(res, {"CodeStored", "Instantiated"},
                           [records \in Seq(Events) |-> reduce(records, <<<<>>, <<>>>>)],
                           <<<<>>, <<>>>>)
  IN CodeSubmittableResult(res, pair[1], pair[2])

\* dualTransform projecting as the combined call does
dualTransform_Combined(res) == singleTransform(res)

\* #instantiateDual's withResultTransform callback
dualTransform(res) ==
  BlueprintSubmittableResult(res,
    applyOnEvent(res, {"Instantiated"},
                 [records \in Seq(Events) |-> <<Contract(records[1].data[2])>>], <<>>))

----------------------------------------------------------------------------
(* The builder *)

\* selectCode ignoring the wasm embedded in the ABI
selectCode_ArgOnly(a, wasm) == u8aToU8a(wasm)

\* this.code as the constructor picks it
selectCode(a, wasm) == IF isWasm(a.wasm) THEN a.wasm ELSE u8aToU8a(wasm)

\* BuildTx without the isUndefined test: a later constructor rebinds the name
RECURSIVE BuildTx_LastWins(_, _, _)
BuildTx_LastWins(list, i, table) ==
  IF i > Len(list) THEN table
  ELSE LET messageName == stringCamelCase(list[i].identifier)
       IN BuildTx_LastWins(list, i + 1,
            [n \in DOMAIN table \cup {messageName} |->
               IF n = messageName THEN i ELSE table[n]])

\* the forEach of the constructor: the first constructor of a name keeps it
RECURSIVE BuildTx(_, _, _)
BuildTx(list, i, table) ==
  IF i > Len(list) THEN table
  ELSE LET messageName == stringCamelCase(list[i].identifier)
       IN BuildTx(list, i + 1,
                  IF messageName \in DOMAIN table THEN table
                  ELSE table @@ (messageName :> i))

NoTable == [n \in {} |-> 0]
NoCall  == [name |-> "none", args |-> <<>>]
NoInput == [selector |-> [kind |-> "none"], options |-> <<>>, params |-> <<>>]
NoOutcome ==
  [op |-> "none", input |-> NoInput, status |-> "none", path |-> "none",
   call |-> <<>>, encoding |-> <<>>]

Default(opt, d) == IF opt = <<>> THEN d ELSE opt[1]

\* this.codeHash
codeHash == [hashOf |-> code]

\* the operation threw before api.tx.contracts was called
Failure(path, status) ==
  [status |-> status, path |-> path, call |-> <<>>, encoding |-> <<>>]

\* the operation returned the call; encoding records the toU8a invocation
Success(path, call, c, trailingSalt) ==
  [status |-> "ok", path |-> path, call |-> <<call>>,
   encoding |-> <<[args |-> c.args, salt |-> trailingSalt]>>]

\* instantiateSingle with value and gasLimit in each other's position
instantiateSingle_Swapped(constructorOrId, options, params) ==
  LET gasLimit    == Default(options.gasLimit, 0)
      value       == Default(options.value, 0)
      encodedSalt == encodeSalt(options.salt)
      c           == findConstructor(abi, constructorOrId)
  IN IF ~c.found THEN Failure("SinglePhase", "ConstructorNotFound")
     ELSE IF ~Encodable(c, params) THEN Failure("SinglePhase", "EncodingFailure")
     ELSE LET encoded == toU8a(c, params, <<>>)
          IN Success("SinglePhase",
                     [name |-> "instantiateWithCode",
                      args |-> <<gasLimit, value, compactAddLength(code),
                                 encoded, encodedSalt>>],
                     c, <<>>)

instantiateSingle(constructorOrId, options, params) ==
  LET gasLimit    == Default(options.gasLimit, 0)
      value       == Default(options.value, 0)
      encodedSalt == encodeSalt(options.salt)
      c           == findConstructor(abi, constructorOrId)
  IN IF ~c.found THEN Failure("SinglePhase", "ConstructorNotFound")
     ELSE IF ~Encodable(c, params) THEN Failure("SinglePhase", "EncodingFailure")
     ELSE LET encoded == toU8a(c, params, <<>>)
          IN Success("SinglePhase",
                     [name |-> "instantiateWithCode",
                      args |-> <<value, gasLimit, compactAddLength(code),
                                 encoded, encodedSalt>>],
                     c, <<>>)

\* instantiateDual with the arity probe testing for the 4-argument shape
instantiateDual_WrongArity(constructorOrId, options, params) ==
  LET gasLimit    == Default(options.gasLimit, 0)
      value       == Default(options.value, 0)
      encodedSalt == encodeSalt(options.salt)
      withSalt    == instantiateArity = 4
      c           == findConstructor(abi, constructorOrId)
      trailing    == IF withSalt THEN <<EMPTY_SALT>> ELSE <<encodedSalt>>
  IN IF ~c.found THEN Failure("DualPhase", "ConstructorNotFound")
     ELSE IF ~Encodable(c, params) THEN Failure("DualPhase", "EncodingFailure")
     ELSE LET encoded == toU8a(c, params, trailing)
          IN Success("DualPhase",
                     [name |-> "instantiate",
                      args |-> IF withSalt
                               THEN <<value, gasLimit, codeHash, encoded, encodedSalt>>
                               ELSE <<value, gasLimit, codeHash, encoded>>],
                     c, trailing)

\* instantiateDual assembling the call before the constructor is resolved
instantiateDual_Unresolved(constructorOrId, options, params) ==
  LET gasLimit    == Default(options.gasLimit, 0)
      value       == Default(options.value, 0)
      encodedSalt == encodeSalt(options.salt)
      withSalt    == instantiateArity = 5
      c           == findConstructor(abi, constructorOrId)
      trailing    == IF withSalt THEN <<EMPTY_SALT>> ELSE <<encodedSalt>>
  IN IF c.found /\ ~Encodable(c, params)
     THEN Failure("DualPhase", "EncodingFailure")
     ELSE LET encoded == IF c.found THEN toU8a(c, params, trailing) ELSE <<>>
          IN Success("DualPhase",
                     [name |-> "instantiate",
                      args |-> IF withSalt
                               THEN <<value, gasLimit, codeHash, encoded, encodedSalt>>
                               ELSE <<value, gasLimit, codeHash, encoded>>],
                     c, trailing)

instantiateDual(constructorOrId, options, params) ==
  LET gasLimit    == Default(options.gasLimit, 0)
      value       == Default(options.value, 0)
      encodedSalt == encodeSalt(options.salt)
      withSalt    == instantiateArity = 5
      c           == findConstructor(abi, constructorOrId)
      trailing    == IF withSalt THEN <<EMPTY_SALT>> ELSE <<encodedSalt>>
  IN IF ~c.found THEN Failure("DualPhase", "ConstructorNotFound")
     ELSE IF ~Encodable(c, params) THEN Failure("DualPhase", "EncodingFailure")
     ELSE LET encoded == toU8a(c, params, trailing)
          IN Success("DualPhase",
                     [name |-> "instantiate",
                      args |-> IF withSalt
                               THEN <<value, gasLimit, codeHash, encoded, encodedSalt>>
                               ELSE <<value, gasLimit, codeHash, encoded>>],
                     c, trailing)

\* instantiate with the two branches exchanged
instantiate_Exchanged(constructorOrId, options, params) ==
  IF hasInstantiateWithCode
  THEN instantiateDual(constructorOrId, options, params)
  ELSE instantiateSingle(constructorOrId, options, params)

instantiate(constructorOrId, options, params) ==
  IF hasInstantiateWithCode
  THEN instantiateSingle(constructorOrId, options, params)
  ELSE instantiateDual(constructorOrId, options, params)

----------------------------------------------------------------------------
(* Inputs *)

W1 == WASM_MAGIC
W2 == WASM_MAGIC \o <<1>>

Bytes(b) == <<[kind |-> "u8a", content |-> b]>>
Str(s)   == <<[kind |-> "str", content |-> s]>>

Ctor(identifier, args) == [identifier |-> identifier, args |-> args]

Abis ==
  { [constructors |-> <<Ctor(<<"a", "_", "b">>, <<1>>), Ctor(<<"a", "B">>, <<1, 2>>)>>,
     wasm |-> <<>>],
    [constructors |-> <<Ctor(<<"n">>, <<>>)>>, wasm |-> W1],
    [constructors |-> <<Ctor(<<"A", "_", "b">>, <<2>>), Ctor(<<"n">>, <<1>>),
                        Ctor(<<"a", "_", "_", "B">>, <<>>)>>,
     wasm |-> <<1, 2>>] }

WasmArgs == {<<>>, Bytes(<<0, 97, 115, 108>>), Bytes(W2)}

Options ==
  { [value |-> <<>>,  gasLimit |-> <<>>,  salt |-> <<>>],
    [value |-> <<3>>, gasLimit |-> <<>>,  salt |-> Bytes(<<5>>)],
    [value |-> <<>>,  gasLimit |-> <<4>>, salt |-> Str(<<"s", "t">>)] }

ParamLists == {<<>>, <<300>>, <<1, 300>>}

Selectors ==
  [kind : {"index"}, index : {0, 2}] \cup [kind : {"id"}, id : {<<"a", "B">>}]

RECURSIVE SeqsUpTo(_, _)
SeqsUpTo(S, n) ==
  IF n = 0 THEN {<<>>}
  ELSE LET shorter == SeqsUpTo(S, n - 1)
       IN shorter \cup {Append(s, e) : s \in shorter, e \in S}

EventLists == SeqsUpTo(Events, MaxEvents)

NoResult == [via |-> "none", value |-> [events |-> <<>>]]

----------------------------------------------------------------------------
(* Actions *)

Init ==
  /\ hasInstantiateWithCode \in BOOLEAN
  /\ instantiateArity \in {4, 5}
  /\ built = "unbuilt"
  /\ abi = [constructors |-> <<>>, wasm |-> <<>>]
  /\ code = <<>>
  /\ tx = NoTable
  /\ ops = 0
  /\ ncalls = 0
  /\ lastCall = NoCall
  /\ outcome = NoOutcome
  /\ firstPath = "none"
  /\ ctorArgs = <<>>
  /\ result = NoResult

\* new Code(api, abi, wasm, decorateMethod)
Construct(a, wasm) ==
  /\ built = "unbuilt"
  /\ ctorArgs' = <<[abi |-> a, wasm |-> wasm]>>
  /\ LET c == selectCode(a, wasm)
     IN IF isWasm(c)
        THEN /\ built' = "ok"
             /\ abi' = a
             /\ code' = c
             /\ tx' = BuildTx(a.constructors, 1, NoTable)
        ELSE /\ built' = "failed"
             /\ UNCHANGED <<abi, code, tx>>
  /\ UNCHANGED <<runtimeVars, callVars, result>>

\* the call createBlueprint assembles
putCode == [name |-> "putCode", args |-> <<compactAddLength(code)>>]

createBlueprint ==
  /\ built = "ok"
  /\ ops < MaxOps
  /\ ops' = ops + 1
  /\ ncalls' = ncalls + 1
  /\ lastCall' = putCode
  /\ outcome' = [op |-> "createBlueprint", input |-> NoInput, status |-> "ok",
                 path |-> "none", call |-> <<putCode>>, encoding |-> <<>>]
  /\ UNCHANGED <<runtimeVars, builderVars, firstPath, result>>

\* the record of one #instantiate invocation
Invoked(constructorOrId, options, params) ==
  LET r == instantiate(constructorOrId, options, params)
  IN [op |-> "instantiate",
      input |-> [selector |-> constructorOrId, options |-> options, params |-> params],
      status |-> r.status, path |-> r.path, call |-> r.call, encoding |-> r.encoding]

Invoke(constructorOrId, options, params) ==
  LET r == instantiate(constructorOrId, options, params)
  IN /\ built = "ok"
     /\ ops < MaxOps
     /\ ops' = ops + 1
     /\ outcome' = Invoked(constructorOrId, options, params)
     /\ ncalls' = ncalls + Len(r.call)
     /\ lastCall' = IF r.call = <<>> THEN lastCall ELSE r.call[1]
     /\ firstPath' = IF firstPath = "none" THEN r.path ELSE firstPath
     /\ UNCHANGED <<runtimeVars, builderVars, result>>

\* #instantiate reached with a caller-chosen selector
Instantiate(constructorOrId, options, params) ==
  Invoke(constructorOrId, options, params)

\* code.tx[messageName](options, ...params)
TxCall(messageName, options, params) ==
  /\ messageName \in DOMAIN tx
  /\ Invoke([kind |-> "descriptor", descriptor |-> abi.constructors[tx[messageName]]],
            options, params)

\* the connected chain changes its runtime; api.tx is re-decorated
RuntimeUpgrade(iwc, arity) ==
  /\ <<iwc, arity>> # <<hasInstantiateWithCode, instantiateArity>>
  /\ hasInstantiateWithCode' = iwc
  /\ instantiateArity' = arity
  /\ UNCHANGED <<builderVars, callVars, result>>

Next ==
  \/ \E a \in Abis, wasm \in WasmArgs : Construct(a, wasm)
  \/ createBlueprint
  \/ \E s \in Selectors, o \in Options, p \in ParamLists : Instantiate(s, o, p)
  \/ \E n \in DOMAIN tx, o \in Options, p \in ParamLists : TxCall(n, o, p)
  \/ \E iwc \in BOOLEAN, arity \in {4, 5} : RuntimeUpgrade(iwc, arity)

Spec == Init /\ [][Next]_vars

----------------------------------------------------------------------------
(* The result transforms: each is invoked once, with the outcome of the      *)
(* call the builder made                                                   *)

ProjAbi == [constructors |-> <<Ctor(<<"n">>, <<>>)>>, wasm |-> W1]

InitProj ==
  /\ hasInstantiateWithCode \in BOOLEAN
  /\ instantiateArity \in {4, 5}
  /\ built = "ok"
  /\ abi = ProjAbi
  /\ code = W1
  /\ tx = BuildTx(ProjAbi.constructors, 1, NoTable)
  /\ ctorArgs = <<[abi |-> ProjAbi, wasm |-> <<>>]>>
  /\ ops = 1
  /\ ncalls = 1
  /\ \/ /\ lastCall = putCode
        /\ outcome = [op |-> "createBlueprint", input |-> NoInput, status |-> "ok",
                      path |-> "none", call |-> <<putCode>>, encoding |-> <<>>]
        /\ firstPath = "none"
     \/ /\ outcome = Invoked([kind |-> "index", index |-> 0],
                             [value |-> <<>>, gasLimit |-> <<>>, salt |-> <<>>], <<>>)
        /\ lastCall = outcome.call[1]
        /\ firstPath = outcome.path
  /\ result = NoResult

TransformStore(events) ==
  /\ result = NoResult
  /\ lastCall.name = "putCode"
  /\ result' = [via |-> "createBlueprint", value |-> storeTransform([events |-> events])]
  /\ UNCHANGED <<runtimeVars, builderVars, callVars>>

TransformSingle(events) ==
  /\ result = NoResult
  /\ lastCall.name = "instantiateWithCode"
  /\ result' = [via |-> "instantiateSingle", value |-> singleTransform([events |-> events])]
  /\ UNCHANGED <<runtimeVars, builderVars, callVars>>

TransformDual(events) ==
  /\ result = NoResult
  /\ lastCall.name = "instantiate"
  /\ result' = [via |-> "instantiateDual", value |-> dualTransform([events |-> events])]
  /\ UNCHANGED <<runtimeVars, builderVars, callVars>>

NextProj ==
  \/ \E events \in EventLists : TransformStore(events)
  \/ \E events \in EventLists : TransformSingle(events)
  \/ \E events \in EventLists : TransformDual(events)

SpecProj == InitProj /\ [][NextProj]_vars

----------------------------------------------------------------------------
(* Properties of the result transforms (SpecProj) *)

OfKind(events, kind) == SelectSeq(events, LAMBDA e : e.kind = kind)
Last(q) == q[Len(q)]

Projected(via) == result.via = via
Stored == OfKind(result.value.events, "CodeStored")
Instantiated == OfKind(result.value.events, "Instantiated")
BlueprintOf(r) == IF "blueprint" \in DOMAIN r THEN r.blueprint ELSE <<>>

\* C1 as stated: in the combined store+instantiate projection a slot is set
\* only if it is not yet set, so with two or more CodeStored events the code
\* handle carries the hash of the FIRST one, and with two or more Instantiated
\* events the contract handle carries the address of the FIRST one.
C1_FirstEventWins ==
  Projected("instantiateSingle") =>
    /\ Len(Stored) >= 2 =>
         result.value.blueprint = <<Blueprint(Stored[1].data[1])>>
    /\ Len(Instantiated) >= 2 =>
         result.value.contract = <<Contract(Instantiated[1].data[2])>>

\* C1 amended: the reduce overwrites the slot at every matching event, so
\* with two or more CodeStored events the code handle carries the hash (first
\* data field) of the LAST one, and with two or more Instantiated events the
\* contract handle carries the address (second data field) of the LAST one.
C1_LastEventWins ==
  Projected("instantiateSingle") =>
    /\ Len(Stored) >= 2 =>
         result.value.blueprint = <<Blueprint(Last(Stored).data[1])>>
    /\ Len(Instantiated) >= 2 =>
         result.value.contract = <<Contract(Last(Instantiated).data[2])>>

C1_Witness ==
  /\ Projected("instantiateSingle")
  /\ Len(Stored) >= 2 /\ Stored[1].data[1] # Last(Stored).data[1]
  /\ Len(Instantiated) >= 2 /\ Instantiated[1].data[2] # Last(Instantiated).data[2]
  /\ result.value.blueprint = <<Blueprint(Last(Stored).data[1])>>
  /\ result.value.contract = <<Contract(Last(Instantiated).data[2])>>

\* C2: in the combined projection, [CodeStored(H)] yields codeHandle = H and
\* no contract handle; one CodeStored(H) and one Instantiated(_, A), in either
\* order and with events of other kinds interleaved, yield codeHandle = H and
\* contractHandle = A; a list without CodeStored/Instantiated events yields a
\* result wrapper over the same outcome with both handles unset.
C2_Projection ==
  Projected("instantiateSingle") =>
    /\ (Len(Stored) = 1 /\ Len(Instantiated) = 0) =>
         /\ result.value.blueprint = <<Blueprint(Stored[1].data[1])>>
         /\ result.value.contract = <<>>
    /\ (Len(Stored) = 1 /\ Len(Instantiated) = 1) =>
         /\ result.value.blueprint = <<Blueprint(Stored[1].data[1])>>
         /\ result.value.contract = <<Contract(Instantiated[1].data[2])>>
    /\ (Len(Stored) = 0 /\ Len(Instantiated) = 0) =>
         /\ result.value.blueprint = <<>>
         /\ result.value.contract = <<>>
         /\ DOMAIN result.value = {"events", "blueprint", "contract"}

C2_Witness ==
  /\ Projected("instantiateSingle")
  /\ Len(result.value.events) = 3
  /\ result.value.events[1].kind = "Instantiated"
  /\ result.value.events[2].kind = "Transfer"
  /\ result.value.events[3].kind = "CodeStored"
  /\ result.value.blueprint = <<Blueprint(result.value.events[3].data[1])>>
  /\ result.value.contract = <<Contract(result.value.events[1].data[2])>>

\* C3: a pure-store result carries a code handle only if a CodeStored event
\* was observed and never a contract handle; an instantiate-only result
\* carries a contract handle only if an Instantiated event was observed and
\* never a code handle; a combined result carries each handle only if an
\* event of its kind was observed.
C3_HandlesOnlyFromConfirmingEvents ==
  /\ Projected("createBlueprint") =>
       /\ result.value.contract = <<>>
       /\ result.value.blueprint # <<>> => Len(Stored) > 0
  /\ Projected("instantiateDual") =>
       /\ BlueprintOf(result.value) = <<>>
       /\ result.value.contract # <<>> => Len(Instantiated) > 0
  /\ Projected("instantiateSingle") =>
       /\ result.value.blueprint # <<>> => Len(Stored) > 0
       /\ result.value.contract # <<>> => Len(Instantiated) > 0

C3_Witness ==
  /\ Projected("createBlueprint")
  /\ Len(Stored) > 0
  /\ Len(Instantiated) > 0
  /\ result.value.blueprint # <<>>
  /\ result.value.contract = <<>>

----------------------------------------------------------------------------
(* Properties of the builder (Spec) *)

\* a step that is an invocation of #instantiate
InstantiateStep == ops' # ops /\ outcome'.op = "instantiate"

Resolved(input) == findConstructor(abi, input.selector)
ArgBytes(input) == EncodeArgs(Resolved(input).args, input.params)
SaltBytes(salt) ==
  IF salt = <<>> THEN <<>>
  ELSE IF salt[1].kind = "u8a" THEN salt[1].content
  ELSE [i \in 1..Len(salt[1].content) |-> CharCode(salt[1].content[i])]
Prefixed(bytes) == <<4 * Len(bytes)>> \o bytes

\* C4 as stated: the path is selected once per builder; every instantiate
\* call of one builder takes the path its first instantiate call took.
C4_PathFixedPerBuilder ==
  (outcome.op = "instantiate" /\ firstPath # "none") => outcome.path = firstPath

\* C4 amended: the path is selected at every instantiate call by the probe
\* for the combined call at that moment: SinglePhase if the runtime exposes
\* instantiateWithCode when the call is made, DualPhase otherwise; on a
\* runtime that exposes the combined call no instantiate takes DualPhase.
C4_PathProbedPerCall ==
  [][InstantiateStep =>
       outcome'.path = IF hasInstantiateWithCode THEN "SinglePhase" ELSE "DualPhase"]_vars

C4_Witness ==
  /\ outcome.op = "instantiate"
  /\ firstPath = "SinglePhase"
  /\ outcome.path = "DualPhase"
  /\ ~hasInstantiateWithCode

DualStep == InstantiateStep /\ outcome'.path = "DualPhase" /\ outcome'.status = "ok"

FiveArgShape(input) ==
  /\ lastCall'.args = <<Default(input.options.value, 0),
                        Default(input.options.gasLimit, 0), codeHash,
                        ArgBytes(input), SaltBytes(input.options.salt)>>

FourArgShape(input) ==
  /\ lastCall'.args = <<Default(input.options.value, 0),
                        Default(input.options.gasLimit, 0), codeHash,
                        ArgBytes(input) \o SaltBytes(input.options.salt)>>

\* C5 as stated: with 5 declared arguments the call has 5 arguments and the
\* caller's salt is the fifth; with 4 declared arguments the call has 4
\* arguments, the salt is folded into the tail of the encoded constructor
\* bytes, and the empty-salt sentinel is what the encoding call is given.
C5_SentinelInFourArgEncoding ==
  [][DualStep =>
       /\ lastCall'.name = "instantiate"
       /\ instantiateArity = 5 => FiveArgShape(outcome'.input)
       /\ instantiateArity = 4 =>
            /\ FourArgShape(outcome'.input)
            /\ outcome'.encoding[1].salt = <<EMPTY_SALT>>]_vars

\* C5 amended: with 5 declared arguments the call has 5 arguments, the
\* caller's salt is the fifth and the encoding call is given the empty-salt
\* sentinel; with 4 declared arguments the call has 4 arguments and the
\* encoding call is given the caller's encoded salt, which it folds into the
\* tail of the encoded constructor bytes.
C5_SaltByArity ==
  [][DualStep =>
       /\ lastCall'.name = "instantiate"
       /\ instantiateArity = 5 =>
            /\ FiveArgShape(outcome'.input)
            /\ outcome'.encoding[1].salt = <<EMPTY_SALT>>
       /\ instantiateArity = 4 =>
            /\ FourArgShape(outcome'.input)
            /\ outcome'.encoding[1].salt = <<SaltBytes(outcome'.input.options.salt)>>]_vars

C5_Witness ==
  /\ outcome.op = "instantiate" /\ outcome.path = "DualPhase" /\ outcome.status = "ok"
  /\ outcome.input.options.salt # <<>>
  /\ Len(lastCall.args) = 4
  /\ outcome.encoding[1].salt = <<SaltBytes(outcome.input.options.salt)>>
  /\ outcome.encoding[1].salt # <<EMPTY_SALT>>

\* C6: an instantiate whose selector does not resolve, or whose arguments do
\* not encode, fails without assembling any call; a call is assembled only
\* after both have succeeded.
C6_NoCallOnFailure ==
  [][InstantiateStep =>
       LET c    == Resolved(outcome'.input)
           good == c.found /\ Encodable(c, outcome'.input.params)
       IN /\ ~good => /\ outcome'.status \in {"ConstructorNotFound", "EncodingFailure"}
                      /\ outcome'.call = <<>>
                      /\ ncalls' = ncalls
                      /\ lastCall' = lastCall
          /\ ~c.found => outcome'.status = "ConstructorNotFound"
          /\ ncalls' # ncalls => good]_vars

C6_Witness ==
  /\ outcome.op = "instantiate"
  /\ outcome.status = "ConstructorNotFound"
  /\ outcome.path = "DualPhase"
  /\ ops = 2
  /\ ncalls = 1
  /\ lastCall.name = "putCode"

\* C7: a successful SinglePhase instantiate assembles exactly one call,
\* instantiateWithCode(value, gasLimit, length-prefixed code, encoded
\* constructor args without salt tail, encoded salt), value and gasLimit
\* being 0 when omitted and the salt the empty sentinel when omitted; the
\* pure-store call carries the same length-prefixed code.
C7_SinglePhaseCall ==
  [][/\ (InstantiateStep /\ outcome'.path = "SinglePhase" /\ outcome'.status = "ok") =>
          /\ ncalls' = ncalls + 1
          /\ lastCall'.name = "instantiateWithCode"
          /\ lastCall'.args = <<Default(outcome'.input.options.value, 0),
                                Default(outcome'.input.options.gasLimit, 0),
                                Prefixed(code),
                                ArgBytes(outcome'.input),
                                SaltBytes(outcome'.input.options.salt)>>
     /\ (ops' # ops /\ outcome'.op = "createBlueprint") =>
          /\ ncalls' = ncalls + 1
          /\ lastCall' = [name |-> "putCode", args |-> <<Prefixed(code)>>]]_vars

C7_Witness ==
  /\ outcome.op = "instantiate" /\ outcome.path = "SinglePhase" /\ outcome.status = "ok"
  /\ outcome.input.options.value = <<3>>
  /\ outcome.input.options.gasLimit = <<>>
  /\ lastCall.args[1] = 3
  /\ lastCall.args[2] = 0
  /\ lastCall.args[4] # <<>>
  /\ lastCall.args[5] = <<5>>

GivenWasm == u8aToU8a(ctorArgs[1].wasm)

\* C8 as stated: whenever the wasm argument is not recognizable bytecode,
\* construction fails and no call is ever built.
C8_InvalidArgumentFails ==
  (built # "unbuilt" /\ ~isWasm(GivenWasm)) => (built = "failed" /\ ncalls = 0)

\* C8 amended: construction fails exactly when neither the wasm embedded in
\* the ABI nor the wasm argument is recognizable bytecode, and then no call
\* is ever built; when the ABI embeds recognizable wasm the builder uses it
\* and the argument is not examined.
C8_FailsIffNoWasmAnywhere ==
  built # "unbuilt" =>
    /\ built = "failed" <=> (~isWasm(ctorArgs[1].abi.wasm) /\ ~isWasm(GivenWasm))
    /\ built = "failed" => (ops = 0 /\ ncalls = 0 /\ lastCall = NoCall)
    /\ (built = "ok" /\ isWasm(ctorArgs[1].abi.wasm)) => code = ctorArgs[1].abi.wasm
    /\ (built = "ok" /\ ~isWasm(ctorArgs[1].abi.wasm)) => code = GivenWasm

C8_Witness ==
  /\ built = "failed"
  /\ ctorArgs[1].wasm # <<>>
  /\ ~isWasm(GivenWasm)

CamelNames == {stringCamelCase(abi.constructors[i].identifier) :
                 i \in 1..Len(abi.constructors)}

TableBound ==
  IF built = "ok"
  THEN /\ DOMAIN tx = CamelNames
       /\ \A n \in DOMAIN tx :
            /\ tx[n] \in 1..Len(abi.constructors)
            /\ stringCamelCase(abi.constructors[tx[n]].identifier) = n
            /\ \A j \in 1..(tx[n] - 1) :
                 stringCamelCase(abi.constructors[j].identifier) # n
  ELSE tx = NoTable

\* C10: the call table has exactly one entry per distinct camel-cased
\* constructor identifier, bound to the FIRST constructor of that name, it
\* is filled only by the constructor, and no later operation changes it.
C10_CallTable ==
  /\ []TableBound
  /\ [][built = "ok" => tx' = tx]_vars

C10_Witness ==
  /\ built = "ok"
  /\ ops = MaxOps
  /\ Cardinality(DOMAIN tx) < Len(abi.constructors)
  /\ \E n \in DOMAIN tx :
       \E j \in (tx[n] + 1)..Len(abi.constructors) :
         stringCamelCase(abi.constructors[j].identifier) = n

====
